---- MODULE Spec2Model ----
(***************************************************************************)
(* Model of scripts/opendrop-release.js: the OpenDrop release widget.      *)
(*                                                                         *)
(* JavaScript values are represented as follows.                           *)
(*   - a string is a sequence of one-character strings;                    *)
(*   - Array.prototype.filter is SelectSeq;                                *)
(*   - null / undefined is the record Null;                                *)
(*   - an array is JsArray(s) for a sequence s, any other value handed to  *)
(*     a function that expects an array is NotAnArray;                     *)
(*   - published_at is <<>> when null/missing, and <<t>> for a date string *)
(*     that denotes the instant t (milliseconds since the epoch).          *)
(***************************************************************************)
EXTENDS Integers, Sequences, FiniteSets, TLC

VARIABLES
    releases,   \* argument of the pickBestRelease call under study
    best,       \* its return value
    selPc,      \* "call" before the call, "done" after it
    assets,     \* argument of the pickWindowsAsset call under study
    asset,      \* its return value
    assetPc,    \* "call" before the call, "done" after it
    storage,    \* localStorage[CONFIG.cacheKey]: Null, or the stored text
    storageMode,\* "ok", "quota" (setItem throws) or "unavailable" (both throw)
    now,        \* Date.now()
    got,        \* return value of the latest getCachedRelease call
    lastOp,     \* the latest step: "none", "put", "get", "tick" or "env"
    lastPut,    \* the release given to the latest cacheRelease call while
                \* nothing but getCachedRelease calls has happened since,
                \* else Null
    tagArg,     \* argument of the parseSemver call under study
    parsed,     \* its return value
    parsePc,    \* "call" before the call, "done" after it
    verA,       \* first argument of the compareSemver call under study
    verB,       \* its second argument
    cmpOut,     \* its return value
    cmpPc,      \* "call" before the call, "done" after it
    runs,       \* the runs of fetchLatestRelease: where each one stands and
                \* what it has done so far
    ui,         \* what the page shows: Null for the placeholders of the
                \* markup, else what updateReleaseUI wrote last
    order,      \* the runs that selected a release, in the order in which
                \* their responses were delivered
    firstStorage \* the payload of the slot when the page was loaded

selVars == <<releases, best, selPc>>

assetVars == <<assets, asset, assetPc>>

cacheVars == <<storage, storageMode, now, got, lastOp, lastPut>>

parseVars == <<tagArg, parsed, parsePc>>

cmpVars == <<verA, verB, cmpOut, cmpPc>>

runVars == <<runs, ui, order, firstStorage>>

vars == <<selVars, assetVars, cacheVars, parseVars, cmpVars, runVars>>

(***************************************************************************)
(* Bounds of the model.                                                    *)
(***************************************************************************)
MaxReleases == 3

MaxAssets == 3

\* The clock runs over the instants within one millisecond of a multiple of
\* the time to live, up to this multiple.
MaxClockTTLs == 2

\* The number of runs of fetchLatestRelease on one page.
MaxRuns == 2

\* The longest tag built from the alphabet of tags.
MaxTagLen == 6

\* The largest major, minor or patch number of the versions compared.
MaxVersionField == 2

(***************************************************************************)
(* JavaScript values.                                                      *)
(***************************************************************************)
Null == [null |-> TRUE]

JsArray(s) == [isArray |-> TRUE, items |-> s]

NotAnArray == [isArray |-> FALSE]

SeqsUpTo(S, n) == UNION {[1..k -> S] : k \in 0..n}

\* A string value, and the value of a property that is not there.
Str(chars) == [typeof |-> "string", chars |-> chars]

Undefined == [typeof |-> "undefined"]

UpperCase ==
    <<"A", "B", "C", "D", "E", "F", "G", "H", "I", "J", "K", "L", "M",
      "N", "O", "P", "Q", "R", "S", "T", "U", "V", "W", "X", "Y", "Z">>

LowerCase ==
    <<"a", "b", "c", "d", "e", "f", "g", "h", "i", "j", "k", "l", "m",
      "n", "o", "p", "q", "r", "s", "t", "u", "v", "w", "x", "y", "z">>

LowerChar(c) ==
    IF \E k \in 1..26 : UpperCase[k] = c
    THEN LowerCase[CHOOSE k \in 1..26 : UpperCase[k] = c]
    ELSE c

\* String.prototype.toLowerCase
ToLowerCase(s) == [i \in 1..Len(s) |-> LowerChar(s[i])]

\* String.prototype.endsWith
EndsWith(s, suffix) ==
    /\ Len(s) >= Len(suffix)
    /\ SubSeq(s, Len(s) - Len(suffix) + 1, Len(s)) = suffix

\* String.prototype.includes
Includes(s, part) ==
    \E i \in 1..(Len(s) - Len(part) + 1) :
        SubSeq(s, i, i + Len(part) - 1) = part

\* /part/i.test(s), for a pattern that is a word of lower-case letters
TestIgnoreCase(part, s) == Includes(ToLowerCase(s), part)

(***************************************************************************)
(* parseSemver                                                             *)
(***************************************************************************)
Digits == {"0", "1", "2", "3", "4", "5", "6", "7", "8", "9"}

WhiteSpace == {" ", "\t", "\n", "\r"}

DigitValue(c) ==
    CASE c = "0" -> 0 [] c = "1" -> 1 [] c = "2" -> 2 [] c = "3" -> 3
      [] c = "4" -> 4 [] c = "5" -> 5 [] c = "6" -> 6 [] c = "7" -> 7
      [] c = "8" -> 8 [] c = "9" -> 9

\* Number(d) for a string d of decimal digits
RECURSIVE NumberOf(_)
NumberOf(d) ==
    IF d = <<>> THEN 0
    ELSE 10 * NumberOf(SubSeq(d, 1, Len(d) - 1)) + DigitValue(d[Len(d)])

\* String.prototype.trim
RECURSIVE Trim(_)
Trim(s) ==
    IF s = <<>> THEN s
    ELSE IF s[1] \in WhiteSpace THEN Trim(Tail(s))
    ELSE IF s[Len(s)] \in WhiteSpace THEN Trim(SubSeq(s, 1, Len(s) - 1))
    ELSE s

\* .replace(/^v/i, '')
StripLeadingV(s) ==
    IF s # <<>> /\ s[1] \in {"v", "V"} THEN Tail(s) ELSE s

\* The index just after the longest run of digits of s that starts at i
\* (i itself when s[i] is no digit).
RECURSIVE DigitRunEnd(_, _)
DigitRunEnd(s, i) ==
    IF i <= Len(s) /\ s[i] \in Digits THEN DigitRunEnd(s, i + 1) ELSE i

\* /(\d+)\.(\d+)\.(\d+)/ tried at position i: <<>> when it does not match
\* there, else the three captured groups.  Each \d+ is greedy and is followed
\* by a non-digit (or by the end of the pattern), so the only split that can
\* match is the one that takes the longest run of digits for each group.
MatchAt(s, i) ==
    LET e1 == DigitRunEnd(s, i)
        e2 == DigitRunEnd(s, e1 + 1)
        e3 == DigitRunEnd(s, e2 + 1)
    IN  IF /\ e1 > i
           /\ e1 <= Len(s) /\ s[e1] = "."
           /\ e2 > e1 + 1
           /\ e2 <= Len(s) /\ s[e2] = "."
           /\ e3 > e2 + 1
        THEN << SubSeq(s, i, e1 - 1),
                SubSeq(s, e1 + 1, e2 - 1),
                SubSeq(s, e2 + 1, e3 - 1) >>
        ELSE <<>>

\* Mutant: the pattern is tried at the start of the string only.
MatchAtStartOnly(s, i) == MatchAt(s, i)

\* cleaned.match(...): the match at the leftmost position that has one
RECURSIVE MatchFrom(_, _)
MatchFrom(s, i) ==
    IF i > Len(s) THEN <<>>
    ELSE IF MatchAt(s, i) # <<>> THEN MatchAt(s, i)
    ELSE MatchFrom(s, i + 1)

parseSemver(tag) ==
    IF tag = <<>> THEN Null
    ELSE LET cleaned == StripLeadingV(Trim(tag))
             match   == MatchFrom(cleaned, 1)
         IN  IF match = <<>> THEN Null
             ELSE [major |-> NumberOf(match[1]),
                   minor |-> NumberOf(match[2]),
                   patch |-> NumberOf(match[3])]

(***************************************************************************)
(* compareSemver                                                           *)
(***************************************************************************)
\* Mutant: the fields are compared from the least significant one.
compareSemverPatchFirst(a, b) ==
    IF a.patch # b.patch THEN a.patch - b.patch
    ELSE IF a.minor # b.minor THEN a.minor - b.minor
    ELSE a.major - b.major

compareSemver(a, b) ==
    IF a.major # b.major THEN a.major - b.major
    ELSE IF a.minor # b.minor THEN a.minor - b.minor
    ELSE a.patch - b.patch

(***************************************************************************)
(* pickBestRelease                                                         *)
(***************************************************************************)
\* new Date(published_at || 0).getTime()
DateGetTime(published_at) ==
    IF published_at = <<>> THEN 0 ELSE published_at[1]

\* Mutant: the draft flag is not looked at.
NonDraftsKeepsDrafts(items) == LET keep(r) == r # Null IN SelectSeq(items, keep)

\* releases.filter(r => r && !r.draft)
NonDrafts(items) == LET keep(r) == r # Null /\ ~r.draft IN SelectSeq(items, keep)

\* nonDrafts.filter(r => !r.prerelease)
Stable(nonDrafts) == LET keep(r) == ~r.prerelease IN SelectSeq(nonDrafts, keep)

\* Mutant: the stable releases are not preferred.
CandidatesIgnoreStable(items) == NonDrafts(items)

\* Mutant: the drafts are used when nothing else is left.
CandidatesFallBackToDrafts(items) ==
    LET nonDrafts == NonDrafts(items)
        stable    == Stable(nonDrafts)
        present(r) == r # Null
    IN  IF Len(stable) > 0 THEN stable
        ELSE IF Len(nonDrafts) > 0 THEN nonDrafts
        ELSE SelectSeq(items, present)

\* const candidates = stable.length > 0 ? stable : nonDrafts
Candidates(items) ==
    LET nonDrafts == NonDrafts(items)
        stable    == Stable(nonDrafts)
    IN  IF Len(stable) > 0 THEN stable ELSE nonDrafts

\* Mutant: on a version tie the release published earlier wins.
BestStepEarlierWins(bst, release) ==
    LET semver == parseSemver(release.tag_name)
    IN  IF semver = Null THEN bst
        ELSE IF bst = Null THEN [release |-> release, semver |-> semver]
        ELSE LET cmp == compareSemver(semver, bst.semver)
             IN  IF cmp > 0 THEN [release |-> release, semver |-> semver]
                 ELSE IF cmp = 0
                 THEN LET aTime == DateGetTime(release.published_at)
                          bTime == DateGetTime(bst.release.published_at)
                      IN  IF aTime < bTime
                          THEN [release |-> release, semver |-> semver]
                          ELSE bst
                 ELSE bst

\* One iteration of the loop over the candidates: the running best after
\* the candidate release has been looked at.
BestStep(bst, release) ==
    LET semver == parseSemver(release.tag_name)
    IN  IF semver = Null THEN bst
        ELSE IF bst = Null THEN [release |-> release, semver |-> semver]
        ELSE LET cmp == compareSemver(semver, bst.semver)
             IN  IF cmp > 0 THEN [release |-> release, semver |-> semver]
                 ELSE IF cmp = 0
                 THEN LET aTime == DateGetTime(release.published_at)
                          bTime == DateGetTime(bst.release.published_at)
                      IN  IF aTime > bTime
                          THEN [release |-> release, semver |-> semver]
                          ELSE bst
                 ELSE bst

\* The loop "for (const release of candidates)", started with the running
\* best bst.
RECURSIVE BestLoop(_, _)
BestLoop(bst, candidates) ==
    IF candidates = <<>> THEN bst
    ELSE BestLoop(BestStep(bst, Head(candidates)), Tail(candidates))

\* Mutant: the fallback is the last candidate.
FallbackLastCandidate(candidates) == candidates[Len(candidates)]

\* return candidates[0]
FallbackCandidate(candidates) == candidates[1]

pickBestRelease(rels) ==
    IF ~rels.isArray \/ Len(rels.items) = 0 THEN Null
    ELSE LET candidates == Candidates(rels.items)
             bst        == BestLoop(Null, candidates)
         IN  IF bst = Null /\ Len(candidates) > 0
             THEN FallbackCandidate(candidates)
             ELSE IF bst # Null THEN bst.release
             ELSE Null


(***************************************************************************)
(* pickWindowsAsset                                                        *)
(***************************************************************************)
DotExe == <<".", "e", "x", "e">>

OpenDropWord == <<"o", "p", "e", "n", "d", "r", "o", "p">>

RoleWords ==
    { <<"s", "e", "r", "v", "e", "r">>,
      <<"s", "e", "t", "u", "p">>,
      <<"i", "n", "s", "t", "a", "l", "l", "e", "r">>,
      <<"w", "i", "n", "d", "o", "w", "s">> }

\* Mutant: ".exe" anywhere in the name is enough.
isExeAnywhere(a) ==
    /\ a # Null
    /\ a.name.typeof = "string"
    /\ Includes(ToLowerCase(a.name.chars), DotExe)

\* a && typeof a.name === 'string' && a.name.toLowerCase().endsWith('.exe')
isExe(a) ==
    /\ a # Null
    /\ a.name.typeof = "string"
    /\ EndsWith(ToLowerCase(a.name.chars), DotExe)

\* /opendrop/i.test(a.name)
LooksLikeOpenDrop(a) == TestIgnoreCase(OpenDropWord, a.name.chars)

\* /server|setup|installer|windows/i.test(a.name)
LooksLikeInstaller(a) ==
    \E w \in RoleWords : TestIgnoreCase(w, a.name.chars)

\* Mutant: one of the two patterns is enough.
isPreferredEither(a) == LooksLikeOpenDrop(a) \/ LooksLikeInstaller(a)

\* The predicate of the search for the preferred executable.
isPreferred(a) == LooksLikeOpenDrop(a) /\ LooksLikeInstaller(a)

\* Array.prototype.find, given the elements that pass its test in their
\* order: the first of them as a sequence of length one, or <<>> (undefined)
\* when there is none.
FirstMatch(hits) == IF hits = <<>> THEN <<>> ELSE <<hits[1]>>

pickWindowsAsset(list) ==
    IF ~list.isArray \/ Len(list.items) = 0 THEN Null
    ELSE LET exes == SelectSeq(list.items, isExe)
         IN  IF Len(exes) = 0 THEN Null
             ELSE LET preferred   == FirstMatch(SelectSeq(exes, isPreferred))
                      opendropAny ==
                          FirstMatch(SelectSeq(exes, LooksLikeOpenDrop))
                  IN  IF preferred # <<>> THEN preferred[1]
                      ELSE IF opendropAny # <<>> THEN opendropAny[1]
                      ELSE exes[1]

(***************************************************************************)
(* The release cache: getCachedRelease and cacheRelease                    *)
(***************************************************************************)
\* CONFIG.cacheTTL
cacheTTL == 6 * 60 * 60 * 1000

\* The text JSON.stringify(v) gives for a value v of plain data, which is
\* the text JSON.parse decodes to v again; and a text JSON.parse throws on.
JsonText(v) == [json |-> v]

Garbage == [garbage |-> TRUE]

StorageModes == {"ok", "quota", "unavailable"}

\* cached?.ts, as a condition: there is a decoded object and its ts is a
\* number other than 0
TruthyTs(cached) == cached # Null /\ cached.ts # 0

\* cached?.release, as a condition
TruthyRelease(cached) == cached # Null /\ cached.release # Null

\* The value getCachedRelease returns when the slot holds store, the storage
\* is in the given mode and Date.now() gives clock.  An exception of getItem
\* or of JSON.parse is caught and gives null.
getCachedRelease(store, mode, clock) ==
    IF mode = "unavailable" THEN Null
    ELSE LET cachedRaw == store
         IN  IF cachedRaw = Null THEN Null
             ELSE IF cachedRaw = Garbage THEN Null
             ELSE LET cached  == cachedRaw.json
                      isValid == /\ TruthyTs(cached)
                                 /\ (clock - cached.ts) < cacheTTL
                                 /\ TruthyRelease(cached)
                  IN  IF isValid THEN cached.release ELSE Null

\* Mutant: the write goes through whatever the storage does.
cacheReleaseAlwaysWrites(store, mode, clock, release) ==
    JsonText([ts |-> clock, release |-> release])

\* The slot after cacheRelease(release).  An exception of setItem is caught
\* and leaves the slot as it was.
cacheRelease(store, mode, clock, release) ==
    IF mode = "ok"
    THEN JsonText([ts |-> clock, release |-> release])
    ELSE store

(***************************************************************************)
(* The presentation and the run of fetchLatestRelease.  A run is a chain   *)
(* of synchronous segments cut at its two awaits; a segment works on the   *)
(* run's own record, the page and the cache slot, which are put in one     *)
(* record w while it executes.                                             *)
(***************************************************************************)
\* A tag_name decoded from JSON as an object with its own, non-callable
\* toString, on which String(tag) raises a TypeError.
UnprintableTag == [toString |-> 1]

PoisonRelease == [tag_name |-> UnprintableTag]

StringThrows(release) == release = PoisonRelease

\* What the page shows after updateReleaseUI(release): the label made from
\* the cleaned tag, and the release whose html_url and assets the links
\* are set from.
updateReleaseUI(shown, release) ==
    IF release = Null THEN shown
    ELSE LET tag     == release.tag_name
             cleaned == StripLeadingV(Trim(tag))
         IN  [versionLabel |-> cleaned, release |-> release]

\* One call the run makes, as it is written to the run's log.
Event(op, release) == [op |-> op, release |-> release]

\* updateReleaseUI(release), called by the run of w; String(tag) raises
\* before any element is written.
Present(w, release) ==
    [w EXCEPT !.ui = IF StringThrows(release) THEN @
                     ELSE updateReleaseUI(@, release),
              !.run.log = Append(@, Event("present", release))]

\* cacheRelease(release), called by the run of w
Cache(w, mode, clock, release) ==
    [w EXCEPT !.storage = cacheRelease(@, mode, clock, release),
              !.run.log = Append(@, Event("cache", release))]

\* fetch(URLS.api, ...), issued by the run of w
Fetch(w) == [w EXCEPT !.run.log = Append(@, Event("fetch", Null))]

\* console.warn(...)
Warn(w) == [w EXCEPT !.run.log = Append(@, Event("warn", Null))]

\* The run of w returns, or raises, and is at pc from then on.
Finish(w, pc, outcome) == [w EXCEPT !.run.pc = pc, !.run.outcome = outcome]

\* Mutant: a hit writes the entry back with the time of the read.
OnStartRefreshesEntry(w, mode, clock) ==
    LET cached == getCachedRelease(w.storage, mode, clock)
    IN  IF cached # Null
        THEN Finish(Cache(Present(w, cached), mode, clock, cached),
                    "done", "hit")
        ELSE Finish(Fetch(w), "fetching", "pending")

\* Lines 241-249: the cache is asked; a hit is presented and the run
\* returns, the exception of updateReleaseUI leaving the function; a miss
\* issues the fetch and suspends.
OnStart(w, mode, clock) ==
    LET cached == getCachedRelease(w.storage, mode, clock)
    IN  IF cached # Null
        THEN Finish(Present(w, cached),
                    IF StringThrows(cached) THEN "threw" ELSE "done", "hit")
        ELSE Finish(Fetch(w), "fetching", "pending")

\* Lines 270-273: the catch of the run.
OnError(w) == Finish(Warn(w), "done", "failed")

\* Mutant: a response that is not ok is fetched once more.
OnNotOkRetries(w) == Finish(Fetch(Warn(w)), "fetching", "failed")

\* Lines 255-258: the response is not ok.
OnNotOk(w) == Finish(Warn(w), "done", "failed")

\* Lines 263-266: pickBestRelease gave no release.
OnNoBest(w) == Finish(Warn(w), "done", "failed")

\* Mutant: the cache is written before the page.
OnBestCachesFirst(w, mode, clock, bestOf) ==
    Finish(Present(Cache(w, mode, clock, bestOf), bestOf), "done", "selected")

\* Mutant: a page that shows a release already is left alone.
OnBestFirstWins(w, mode, clock, bestOf) ==
    IF w.ui # Null THEN Finish(Cache(w, mode, clock, bestOf), "done", "selected")
    ELSE Finish(Cache(Present(w, bestOf), mode, clock, bestOf),
                "done", "selected")

\* Lines 268-269: the release is presented and then cached, with no await
\* between the two; an exception of updateReleaseUI goes to the catch.
OnBest(w, mode, clock, bestOf) ==
    IF StringThrows(bestOf) THEN OnError(Present(w, bestOf))
    ELSE Finish(Cache(Present(w, bestOf), mode, clock, bestOf),
                "done", "selected")

(***************************************************************************)
(* The inputs of the calls under study.                                    *)
(***************************************************************************)
Tag102  == <<"v", "1", ".", "0", ".", "2">>
Tag120  == <<"1", ".", "2", ".", "0">>
Tag201  == <<"r", "-", "2", ".", "0", ".", "1", "-", "b">>
TagBeta == <<"b", "e", "t", "a">>

Tags == {Tag102, Tag120, Tag201, TagBeta}

PublishedAts == {<<>>, <<1>>, <<2>>}

\* The release records of the inputs: every published record over the tags,
\* flags and instants above, the one of lowest version at one instant only,
\* and two drafts, which have no published_at, one of them of the highest
\* version.
ReleaseRecords ==
    {r \in [tag_name : Tags, draft : BOOLEAN, prerelease : BOOLEAN,
            published_at : PublishedAts] :
        /\ r.draft => /\ r.published_at = <<>>
                      /\ ~r.prerelease
                      /\ r.tag_name \in {Tag201, TagBeta}
        /\ (~r.draft /\ r.tag_name = Tag102) => r.published_at = <<1>>}

ReleaseLists ==
    {JsArray(s) : s \in SeqsUpTo(ReleaseRecords \cup {Null}, MaxReleases)}
        \cup {NotAnArray}

NameReadme == <<"r", "e", "a", "d", "m", "e", ".", "t", "x", "t">>

NameSetup == <<"o", "p", "e", "n", "d", "r", "o", "p", "-", "s", "e", "t", "u", "p", ".", "e", "x", "e">>

NameServer == <<"O", "P", "E", "N", "D", "R", "O", "P", "-", "S", "e", "r", "v", "e", "r", ".", "E", "x", "e">>

NameBare == <<"O", "p", "e", "n", "D", "r", "o", "p", ".", "E", "X", "E">>

NamePortable == <<"m", "y", "-", "o", "p", "e", "n", "d", "r", "o", "p", ".", "e", "x", "e">>

NameTool == <<"t", "o", "o", "l", ".", "e", "x", "e">>

NameOtherSetup == <<"S", "e", "t", "u", "p", ".", "e", "x", "e">>

NameSignature == <<"o", "p", "e", "n", "d", "r", "o", "p", "-", "w", "i", "n", "d", "o", "w", "s", ".", "e", "x", "e", ".", "s", "i", "g">>

AssetNames ==
    {NameReadme, NameSetup, NameServer, NameBare, NamePortable, NameTool,
     NameOtherSetup, NameSignature}

\* An asset record of the GitHub API, and an asset without a name.
AssetRecords == {[name |-> Str(n)] : n \in AssetNames} \cup {[name |-> Undefined]}

AssetLists ==
    {JsArray(s) : s \in SeqsUpTo(AssetRecords \cup {Null}, MaxAssets)}
        \cup {NotAnArray}

\* The tags given to parseSemver: every string of up to MaxTagLen
\* characters over a blank, a letter V, two digits and the dot, and the
\* examples of the specification.
TagAlphabet == {" ", "V", "0", "1", "."}

TagV123 == <<"v", "1", ".", "2", ".", "3">>

Tag123 == <<"1", ".", "2", ".", "3">>

TagRelease == <<"r", "e", "l", "e", "a", "s", "e", "-", "2", ".", "0", ".", "1", "0", "-", "b", "e", "t", "a">>

TagNotAVersion == <<"n", "o", "t", "-", "a", "-", "v", "e", "r", "s", "i", "o", "n">>

TagPadded == <<" ", "\t", "v", "0", "1", ".", "2", ".", "3", "0", "\n">>

ExampleTags == {TagV123, Tag123, TagRelease, TagNotAVersion, TagPadded}

TagInputs == SeqsUpTo(TagAlphabet, MaxTagLen) \cup ExampleTags

\* The versions given to compareSemver.
Versions ==
    [major : 0..MaxVersionField, minor : 0..MaxVersionField,
     patch : 0..MaxVersionField]

\* The releases handed to the cache.
ReleaseA ==
    [tag_name |-> Tag120, draft |-> FALSE, prerelease |-> FALSE,
     published_at |-> <<1>>]

ReleaseB ==
    [tag_name |-> Tag201, draft |-> FALSE, prerelease |-> TRUE,
     published_at |-> <<2>>]

CachedReleases == {ReleaseA, ReleaseB}

\* The bodies of the responses: a list whose best release is ReleaseA,
\* behind a draft of the highest version; one whose best is ReleaseB; and
\* one of drafts only.
DraftRelease ==
    [tag_name |-> Tag201, draft |-> TRUE, prerelease |-> FALSE,
     published_at |-> <<>>]

OldRelease ==
    [tag_name |-> Tag102, draft |-> FALSE, prerelease |-> FALSE,
     published_at |-> <<1>>]

BodyA == JsArray(<<DraftRelease, OldRelease, ReleaseA, ReleaseB>>)

BodyB == JsArray(<<ReleaseB, DraftRelease>>)

BodyDrafts == JsArray(<<DraftRelease>>)

FetchBodies == {BodyA, BodyB, BodyDrafts}

\* pickBestRelease(releases) for each of these bodies
BestOfBody == [body \in FetchBodies |-> pickBestRelease(body)]

\* The payloads the slot can hold when the page is loaded: nothing, a text
\* that is no JSON, the entry an earlier page load wrote, and an entry of
\* another writer whose release has a tag that cannot be printed.
PriorEntry == JsonText([ts |-> 1, release |-> ReleaseA])

PoisonEntry == JsonText([ts |-> 1, release |-> PoisonRelease])

FirstPayloads == {Null, Garbage, PriorEntry, PoisonEntry}

\* The values Date.now() takes while the page is open.
RunInstants == {0, 1, cacheTTL, cacheTTL + 1}

\* The values Date.now() takes.
Instants ==
    {t \in {k * cacheTTL + d : k \in 0..MaxClockTTLs, d \in {-1, 0, 1}} :
        t >= 0}

(***************************************************************************)
(* The state in which no call is under study.                              *)
(***************************************************************************)
SelectIdle == releases = NotAnArray /\ best = Null /\ selPc = "idle"

AssetIdle == assets = NotAnArray /\ asset = Null /\ assetPc = "idle"

CacheIdle ==
    /\ storage = Null
    /\ storageMode = "ok"
    /\ now = 0
    /\ got = Null
    /\ lastOp = "none"
    /\ lastPut = Null

ParseIdle == tagArg = <<>> /\ parsed = Null /\ parsePc = "idle"

ZeroVersion == [major |-> 0, minor |-> 0, patch |-> 0]

CompareIdle ==
    verA = ZeroVersion /\ verB = ZeroVersion /\ cmpOut = 0 /\ cmpPc = "idle"

RunIds == 1..MaxRuns

\* A run that has not been started.
NotStarted ==
    [pc |-> "idle", outcome |-> "none", at |-> 0, raw |-> <<>>,
     overlaps |-> {}, log |-> <<>>, changed |-> {}, releases |-> <<>>]

RunIdle ==
    /\ runs = [r \in RunIds |-> NotStarted]
    /\ ui = Null
    /\ order = <<>>
    /\ firstStorage = Null

(***************************************************************************)
(* A call of pickBestRelease on any list of releases.                      *)
(***************************************************************************)
SelectInit ==
    /\ releases \in ReleaseLists
    /\ best = Null
    /\ selPc = "call"
    /\ AssetIdle
    /\ CacheIdle
    /\ ParseIdle
    /\ CompareIdle
    /\ RunIdle

CallPickBestRelease ==
    /\ selPc = "call"
    /\ best' = pickBestRelease(releases)
    /\ selPc' = "done"
    /\ UNCHANGED <<releases, assetVars, cacheVars, parseVars, cmpVars, runVars>>

SelectNext == CallPickBestRelease

SpecSelect == SelectInit /\ [][SelectNext]_vars

(***************************************************************************)
(* A call of pickWindowsAsset on any list of assets.                       *)
(***************************************************************************)
AssetInit ==
    /\ assets \in AssetLists
    /\ asset = Null
    /\ assetPc = "call"
    /\ SelectIdle
    /\ CacheIdle
    /\ ParseIdle
    /\ CompareIdle
    /\ RunIdle

CallPickWindowsAsset ==
    /\ assetPc = "call"
    /\ asset' = pickWindowsAsset(assets)
    /\ assetPc' = "done"
    /\ UNCHANGED <<assets, selVars, cacheVars, parseVars, cmpVars, runVars>>

AssetNext == CallPickWindowsAsset

SpecAsset == AssetInit /\ [][AssetNext]_vars

(***************************************************************************)
(* Calls of cacheRelease and getCachedRelease in any order, while the      *)
(* clock advances and the storage is cleared, overwritten or made to fail  *)
(* from outside.                                                           *)
(***************************************************************************)
CacheInit ==
    /\ storage = Null
    /\ storageMode = "ok"
    /\ now \in Instants
    /\ got = Null
    /\ lastOp = "none"
    /\ lastPut = Null
    /\ SelectIdle
    /\ AssetIdle
    /\ ParseIdle
    /\ CompareIdle
    /\ RunIdle

CallCacheRelease ==
    \E release \in CachedReleases :
        /\ storage' = cacheRelease(storage, storageMode, now, release)
        /\ lastPut' = release
        /\ lastOp' = "put"
        /\ UNCHANGED <<storageMode, now, got, selVars, assetVars,
                       parseVars, cmpVars, runVars>>

CallGetCachedRelease ==
    /\ got' = getCachedRelease(storage, storageMode, now)
    /\ lastOp' = "get"
    /\ UNCHANGED <<storage, storageMode, now, lastPut, selVars, assetVars,
                   parseVars, cmpVars, runVars>>

\* Time passes.
Tick ==
    \E t \in Instants :
        /\ t > now
        /\ now' = t
        /\ lastPut' = Null
        /\ lastOp' = "tick"
        /\ UNCHANGED <<storage, storageMode, got, selVars, assetVars,
                       parseVars, cmpVars, runVars>>

\* The user clears the site data.
StorageCleared ==
    /\ storage # Null
    /\ storage' = Null
    /\ lastPut' = Null
    /\ lastOp' = "env"
    /\ UNCHANGED <<storageMode, now, got, selVars, assetVars,
                   parseVars, cmpVars, runVars>>

\* Something else writes the slot: a text that is not JSON, or the JSON
\* text "null".
StorageOverwritten ==
    \E text \in {Garbage, JsonText(Null)} :
        /\ storage # text
        /\ storage' = text
        /\ lastPut' = Null
        /\ lastOp' = "env"
        /\ UNCHANGED <<storageMode, now, got, selVars, assetVars,
                       parseVars, cmpVars, runVars>>

\* The storage starts or stops to fail: the quota is used up or freed, the
\* storage is disabled or enabled.
StorageModeChanges ==
    \E mode \in StorageModes :
        /\ mode # storageMode
        /\ storageMode' = mode
        /\ lastPut' = Null
        /\ lastOp' = "env"
        /\ UNCHANGED <<storage, now, got, selVars, assetVars,
                       parseVars, cmpVars, runVars>>

CacheNext ==
    \/ CallCacheRelease
    \/ CallGetCachedRelease
    \/ Tick
    \/ StorageCleared
    \/ StorageOverwritten
    \/ StorageModeChanges

SpecCache == CacheInit /\ [][CacheNext]_vars

(***************************************************************************)
(* A call of parseSemver on any tag.                                       *)
(***************************************************************************)
ParseInit ==
    /\ tagArg \in TagInputs
    /\ parsed = Null
    /\ parsePc = "call"
    /\ SelectIdle
    /\ AssetIdle
    /\ CacheIdle
    /\ CompareIdle
    /\ RunIdle

CallParseSemver ==
    /\ parsePc = "call"
    /\ parsed' = parseSemver(tagArg)
    /\ parsePc' = "done"
    /\ UNCHANGED <<tagArg, selVars, assetVars, cacheVars, cmpVars, runVars>>

ParseNext == CallParseSemver

SpecParse == ParseInit /\ [][ParseNext]_vars

(***************************************************************************)
(* A call of compareSemver on any two versions.                            *)
(***************************************************************************)
CompareInit ==
    /\ verA \in Versions
    /\ verB \in Versions
    /\ cmpOut = 0
    /\ cmpPc = "call"
    /\ SelectIdle
    /\ AssetIdle
    /\ CacheIdle
    /\ ParseIdle
    /\ RunIdle

CallCompareSemver ==
    /\ cmpPc = "call"
    /\ cmpOut' = compareSemver(verA, verB)
    /\ cmpPc' = "done"
    /\ UNCHANGED <<verA, verB, selVars, assetVars, cacheVars, parseVars,
                   runVars>>

CompareNext == CallCompareSemver

SpecCompare == CompareInit /\ [][CompareNext]_vars

(***************************************************************************)
(* The page: runs of fetchLatestRelease, started by init and by later      *)
(* calls, interleaved at their awaits, over one cache slot and one clock.  *)
(***************************************************************************)
Init ==
    /\ storage \in FirstPayloads
    /\ firstStorage = storage
    /\ storageMode \in StorageModes
    /\ now \in RunInstants
    /\ got = Null
    /\ lastOp = "none"
    /\ lastPut = Null
    /\ runs = [r \in RunIds |-> NotStarted]
    /\ ui = Null
    /\ order = <<>>
    /\ SelectIdle
    /\ AssetIdle
    /\ ParseIdle
    /\ CompareIdle

\* The run r with the page and the slot, as a segment of r finds them.
World(r) == [run |-> runs[r], ui |-> ui, storage |-> storage]

\* What a segment changed of the page and of the slot.
Changed(w0, w1) ==
    (IF w1.ui # w0.ui THEN {"ui"} ELSE {})
        \cup (IF w1.storage # w0.storage THEN {"storage"} ELSE {})

\* The segment that took World(r) to w is done.
Commit(r, w) ==
    /\ runs' = [runs EXCEPT
                  ![r] = [w.run EXCEPT
                            !.changed = @ \cup Changed(World(r), w)]]
    /\ ui' = w.ui
    /\ storage' = w.storage

InFlight == {q \in RunIds : runs[q].pc \in {"fetching", "parsing"}}

\* fetchLatestRelease() is called: the run reads the slot and the clock.
StartRun(r) ==
    /\ runs[r].pc = "idle"
    /\ r > 1 => runs[r - 1].pc # "idle"
    /\ LET raw == IF storageMode = "unavailable" THEN <<>> ELSE <<storage>>
           w   == [World(r) EXCEPT !.run.at = now, !.run.raw = raw,
                                   !.run.overlaps = InFlight]
       IN  Commit(r, OnStart(w, storageMode, now))
    /\ UNCHANGED <<order, firstStorage, storageMode, now, got, lastOp,
                   lastPut, selVars, assetVars, parseVars, cmpVars>>

\* The promise of fetch is rejected (network error).
FetchRejects(r) ==
    /\ runs[r].pc = "fetching"
    /\ Commit(r, OnError(World(r)))
    /\ UNCHANGED <<order, firstStorage, storageMode, now, got, lastOp,
                   lastPut, selVars, assetVars, parseVars, cmpVars>>

\* The response arrives with a status that is no success.
ResponseNotOk(r) ==
    /\ runs[r].pc = "fetching"
    /\ Commit(r, OnNotOk(World(r)))
    /\ UNCHANGED <<order, firstStorage, storageMode, now, got, lastOp,
                   lastPut, selVars, assetVars, parseVars, cmpVars>>

\* The response arrives with a success status: the run awaits its body.
ResponseOk(r) ==
    /\ runs[r].pc = "fetching"
    /\ Commit(r, Finish(World(r), "parsing", "pending"))
    /\ UNCHANGED <<order, firstStorage, storageMode, now, got, lastOp,
                   lastPut, selVars, assetVars, parseVars, cmpVars>>

\* response.json() is rejected: the body is no JSON.
JsonRejects(r) ==
    /\ runs[r].pc = "parsing"
    /\ Commit(r, OnError(World(r)))
    /\ UNCHANGED <<order, firstStorage, storageMode, now, got, lastOp,
                   lastPut, selVars, assetVars, parseVars, cmpVars>>

\* response.json() gives a body in which pickBestRelease finds no release.
NoSuitableRelease(r) ==
    /\ runs[r].pc = "parsing"
    /\ \E body \in FetchBodies :
          /\ BestOfBody[body] = Null
          /\ Commit(r, OnNoBest([World(r) EXCEPT !.run.releases = <<body>>]))
    /\ UNCHANGED <<order, firstStorage, storageMode, now, got, lastOp,
                   lastPut, selVars, assetVars, parseVars, cmpVars>>

\* response.json() gives a body in which pickBestRelease finds a release.
ReleaseSelected(r) ==
    /\ runs[r].pc = "parsing"
    /\ \E body \in FetchBodies :
          LET bestOf == BestOfBody[body]
          IN  /\ bestOf # Null
              /\ Commit(r, OnBest([World(r) EXCEPT !.run.releases = <<body>>],
                                  storageMode, now, bestOf))
    /\ order' = Append(order, r)
    /\ UNCHANGED <<firstStorage, storageMode, now, got, lastOp, lastPut,
                   selVars, assetVars, parseVars, cmpVars>>

\* Time passes.
ClockAdvances ==
    /\ \E t \in RunInstants : t > now /\ now' = t
    /\ UNCHANGED <<storage, storageMode, got, lastOp, lastPut, runVars,
                   selVars, assetVars, parseVars, cmpVars>>

Next ==
    \/ \E r \in RunIds :
          \/ StartRun(r)
          \/ FetchRejects(r)
          \/ ResponseNotOk(r)
          \/ ResponseOk(r)
          \/ JsonRejects(r)
          \/ NoSuitableRelease(r)
          \/ ReleaseSelected(r)
    \/ ClockAdvances

Spec == Init /\ [][Next]_vars

(***************************************************************************)
(* Vocabulary of the claims about pickBestRelease, stated on the input     *)
(* list itself and not through the operators that model the code.          *)
(***************************************************************************)
Returned == selPc = "done"

IsNonDraft(r) == r # Null /\ ~r.draft

IsStableEntry(r) == r # Null /\ ~r.draft /\ ~r.prerelease

\* The positions of the input list that make up the candidate pool.
PoolIdx(items) ==
    IF \E i \in 1..Len(items) : IsStableEntry(items[i])
    THEN {i \in 1..Len(items) : IsStableEntry(items[i])}
    ELSE {i \in 1..Len(items) : IsNonDraft(items[i])}

Pool(rels) == IF rels.isArray THEN PoolIdx(rels.items) ELSE {}

\* What parseSemver makes of each tag of the inputs.
ParsedTags == [t \in Tags |-> parseSemver(t)]

VersionOf(r) == ParsedTags[r.tag_name]

Parseable(r) == VersionOf(r) # Null

\* a is strictly greater than b in the lexicographic order on
\* (major, minor, patch)
VersionGreater(a, b) ==
    \/ a.major > b.major
    \/ a.major = b.major /\ a.minor > b.minor
    \/ a.major = b.major /\ a.minor = b.minor /\ a.patch > b.patch

\* The positions of the pool whose tag is parseable and whose version no
\* parseable entry of the pool exceeds.
TopIdx(rels) ==
    LET pool == Pool(rels)
    IN  {i \in pool :
            /\ Parseable(rels.items[i])
            /\ \A j \in pool :
                  Parseable(rels.items[j]) =>
                      ~VersionGreater(VersionOf(rels.items[j]),
                                      VersionOf(rels.items[i]))}

\* The instant a candidate is ranked at: a missing published_at counts as 0.
RankedAt(r) == IF r.published_at = <<>> THEN 0 ELSE r.published_at[1]

Min(S) == CHOOSE x \in S : \A y \in S : x <= y

(***************************************************************************)
(* C1: for every list given to pickBestRelease that holds at least one     *)
(* non-draft entry, a release is returned and it is not a draft.           *)
(***************************************************************************)
C1_NeverReturnsDraft ==
    (Returned /\ releases.isArray
        /\ \E i \in 1..Len(releases.items) : IsNonDraft(releases.items[i]))
    => (best # Null /\ ~best.draft)

\* A draft with the highest version stands first, a non-draft is returned.
C1_Witness ==
    /\ Returned /\ releases.isArray /\ Len(releases.items) >= 2
    /\ releases.items[1] # Null /\ releases.items[1].draft
    /\ releases.items[1].tag_name = Tag201
    /\ best # Null /\ ~best.draft /\ best.tag_name # Tag201

(***************************************************************************)
(* C2: pickBestRelease returns a prerelease only if the list holds no      *)
(* entry that is both non-draft and non-prerelease; when such a stable     *)
(* entry exists the result is a stable entry, even when a non-draft        *)
(* prerelease of the list has a strictly higher version.                   *)
(***************************************************************************)
C2_PrereleaseOnlyWithoutStable ==
    (Returned /\ releases.isArray)
    => /\ (best # Null /\ best.prerelease)
            => ~\E i \in 1..Len(releases.items) :
                    IsStableEntry(releases.items[i])
       /\ (\E i \in 1..Len(releases.items) : IsStableEntry(releases.items[i]))
            => IsStableEntry(best)

\* A stable entry wins over a non-draft prerelease of higher version.
C2_Witness ==
    /\ Returned /\ releases.isArray
    /\ IsStableEntry(best) /\ Parseable(best)
    /\ \E i \in 1..Len(releases.items) :
          /\ IsNonDraft(releases.items[i])
          /\ releases.items[i].prerelease
          /\ Parseable(releases.items[i])
          /\ VersionGreater(VersionOf(releases.items[i]), VersionOf(best))

(***************************************************************************)
(* C3: when some entry of the candidate pool has a parseable tag, the      *)
(* result is an entry of the pool whose tag is parseable and whose version *)
(* no entry of the pool exceeds in the lexicographic order on              *)
(* (major, minor, patch); an entry with an unparseable tag is not returned.*)
(***************************************************************************)
C3_ReturnsMaximalVersion ==
    (Returned /\ \E i \in Pool(releases) : Parseable(releases.items[i]))
    => /\ best # Null
       /\ \E i \in Pool(releases) : releases.items[i] = best
       /\ Parseable(best)
       /\ \A j \in Pool(releases) :
             Parseable(releases.items[j]) =>
                 ~VersionGreater(VersionOf(releases.items[j]), VersionOf(best))

\* The pool starts with an unparseable tag and then holds 1.0.2 before
\* 1.2.0: the later entry, of higher minor and lower patch, is returned.
C3_Witness ==
    /\ Returned /\ releases.isArray /\ Len(releases.items) >= 3
    /\ 1 \in Pool(releases)
    /\ ~Parseable(releases.items[1])
    /\ \E i, j \in Pool(releases) :
          /\ releases.items[i].tag_name = Tag102
          /\ releases.items[j].tag_name = Tag120
          /\ i < j
    /\ best # Null /\ best.tag_name = Tag120

(***************************************************************************)
(* C4: among the candidates of the pool that share the highest version,    *)
(* the returned one has the greatest publishedAt, whatever the order of    *)
(* the list; a missing publishedAt ranks as the instant 0, so such a       *)
(* candidate loses to a tied candidate with a present positive timestamp.  *)
(***************************************************************************)
C4_TieBrokenByLatestPublished ==
    (Returned /\ TopIdx(releases) # {})
    => /\ \E i \in TopIdx(releases) : releases.items[i] = best
       /\ \A j \in TopIdx(releases) :
             RankedAt(releases.items[j]) <= RankedAt(best)
       /\ (\E j \in TopIdx(releases) :
              /\ releases.items[j].published_at # <<>>
              /\ releases.items[j].published_at[1] > 0)
            => best.published_at # <<>>

\* Two candidates tie on the highest version; the first one has no
\* published_at, the one published later in the list is returned.
C4_Witness ==
    /\ Returned
    /\ \E i, j \in TopIdx(releases) :
          /\ i < j
          /\ releases.items[i].published_at = <<>>
          /\ releases.items[j].published_at # <<>>
          /\ best = releases.items[j]
    /\ \E i, j \in TopIdx(releases) :
          /\ i < j
          /\ releases.items[i].published_at = <<2>>
          /\ releases.items[j].published_at = <<1>>

(***************************************************************************)
(* C5: when no entry of the candidate pool has a parseable tag, the first  *)
(* entry of the pool in input order is returned, with no ranking by        *)
(* timestamp or otherwise.                                                 *)
(***************************************************************************)
C5_FallbackFirstCandidate ==
    (Returned /\ Pool(releases) # {}
        /\ \A i \in Pool(releases) : ~Parseable(releases.items[i]))
    => best = releases.items[Min(Pool(releases))]

\* The pool holds two unparseable entries, the second published later, and
\* does not start at the head of the list; the first of the pool is returned.
C5_Witness ==
    /\ Returned /\ releases.isArray /\ Len(releases.items) >= 3
    /\ Pool(releases) = {2, 3}
    /\ ~Parseable(releases.items[2]) /\ ~Parseable(releases.items[3])
    /\ RankedAt(releases.items[3]) > RankedAt(releases.items[2])
    /\ best = releases.items[2]

(***************************************************************************)
(* C6: pickBestRelease returns null exactly when the candidate pool is     *)
(* empty (the input is not a list, is empty, or holds only drafts and      *)
(* empty entries); for every other input it returns one of the entries of  *)
(* the input list, unmodified.                                             *)
(***************************************************************************)
C6_NullIffEmptyPool ==
    Returned
    => /\ (best = Null) <=> (Pool(releases) = {})
       /\ (best = Null) <=>
            \/ ~releases.isArray
            \/ \A i \in 1..Len(releases.items) :
                  releases.items[i] = Null \/ releases.items[i].draft
       /\ best # Null => \E i \in 1..Len(releases.items) :
                             releases.items[i] = best

\* A list of a draft and an empty entry gives null.
C6_Witness ==
    /\ Returned /\ releases.isArray /\ Len(releases.items) >= 2
    /\ \E i \in 1..Len(releases.items) : releases.items[i] = Null
    /\ \E i \in 1..Len(releases.items) :
          releases.items[i] # Null /\ releases.items[i].draft
    /\ best = Null

(***************************************************************************)
(* Vocabulary of the claims about pickWindowsAsset.  The extension is read *)
(* off the last four characters of the name, and the tier of each name of  *)
(* the inputs is written down by hand from the words of the                *)
(* specification.                                                          *)
(***************************************************************************)
AssetReturned == assetPc = "done"

HasExeExtension(a) ==
    /\ a # Null
    /\ a.name.typeof = "string"
    /\ LET n == a.name.chars
           k == Len(a.name.chars)
       IN  /\ k >= 4
           /\ n[k - 3] = "."
           /\ n[k - 2] \in {"e", "E"}
           /\ n[k - 1] \in {"x", "X"}
           /\ n[k] \in {"e", "E"}

\* 1: executable with the product identifier and an installer-role keyword,
\* 2: executable with the product identifier only, 3: any other executable,
\* 4: not an executable.
TierOf(a) ==
    IF a = Null \/ a.name.typeof # "string" THEN 4
    ELSE IF a.name.chars \in {NameSetup, NameServer} THEN 1
    ELSE IF a.name.chars \in {NameBare, NamePortable} THEN 2
    ELSE IF a.name.chars \in {NameTool, NameOtherSetup} THEN 3
    ELSE 4

AssetIdx == IF assets.isArray THEN 1..Len(assets.items) ELSE {}

(***************************************************************************)
(* C7: pickWindowsAsset never returns an asset whose name does not end,    *)
(* case-insensitively, with ".exe"; it returns null exactly when the list  *)
(* holds no such asset, and otherwise returns an element of the list.      *)
(***************************************************************************)
C7_OnlyExecutables ==
    AssetReturned
    => /\ asset # Null => HasExeExtension(asset)
       /\ (asset = Null) <=>
             ~\E i \in AssetIdx : HasExeExtension(assets.items[i])
       /\ asset # Null => \E i \in AssetIdx : assets.items[i] = asset

\* A name that holds ".exe" without ending in it and an asset without a
\* name stand before an executable with an upper-case extension.
C7_Witness ==
    /\ AssetReturned /\ assets.isArray /\ Len(assets.items) >= 3
    /\ assets.items[1] = [name |-> Str(NameSignature)]
    /\ assets.items[2] = [name |-> Undefined]
    /\ assets.items[3] = [name |-> Str(NameBare)]
    /\ asset = assets.items[3]

(***************************************************************************)
(* C8: pickWindowsAsset is strictly tiered first-match over the executable *)
(* assets in original order: the first executable with the product         *)
(* identifier and an installer-role keyword if there is one, else the      *)
(* first executable with the product identifier, else the first            *)
(* executable; an asset of a lower tier is never returned while one of a   *)
(* higher tier exists, even when it comes first in the list.               *)
(***************************************************************************)
C8_TieredFirstMatch ==
    (AssetReturned /\ \E i \in AssetIdx : TierOf(assets.items[i]) < 4)
    => LET top   == Min({TierOf(assets.items[i]) : i \in AssetIdx})
           first == Min({i \in AssetIdx : TierOf(assets.items[i]) = top})
       IN  asset = assets.items[first]

\* The list holds one asset of each tier, the lowest tier first; the asset
\* of the highest tier, which stands last, is returned.
C8_Witness ==
    /\ AssetReturned /\ assets.isArray /\ Len(assets.items) >= 3
    /\ assets.items[1] = [name |-> Str(NameOtherSetup)]
    /\ TierOf(assets.items[2]) = 2
    /\ TierOf(assets.items[3]) = 1
    /\ asset = assets.items[3]

(***************************************************************************)
(* Vocabulary of the claims about the cache.                               *)
(***************************************************************************)
\* The slot holds an entry written by cacheRelease.
HoldsEntry == storage # Null /\ storage # Garbage /\ storage # JsonText(Null)

StoredAt == storage.json.ts

StoredRelease == storage.json.release

(***************************************************************************)
(* C9: cache round trip.  For every release r and every instant at which   *)
(* it is stored, cacheRelease(r) followed by getCachedRelease() with no    *)
(* time elapsed and no other write in between returns r, whatever entry    *)
(* was stored before.  Stated for a storage that works.                    *)
(***************************************************************************)
C9_RoundTrip ==
    (lastOp = "get" /\ lastPut # Null /\ storageMode = "ok")
    => got = lastPut

\* The round trip holds at every instant but the epoch, where the entry is
\* stored with ts = 0 and cached?.ts is falsy.
RoundTripAfterEpoch ==
    (lastOp = "get" /\ lastPut # Null /\ storageMode = "ok" /\ now # 0)
    => got = lastPut

\* A round trip after the epoch that replaces an older entry.
RoundTripAfterEpoch_Witness ==
    /\ lastOp = "get" /\ lastPut = ReleaseB /\ storageMode = "ok"
    /\ now = cacheTTL + 1
    /\ got = ReleaseB

(***************************************************************************)
(* C10: getCachedRelease returns null whenever now - storedAtTimestamp >=  *)
(* ttl for the stored entry, and returns the stored release whenever an    *)
(* entry exists and now - storedAtTimestamp < ttl; at the instant          *)
(* storedAtTimestamp + ttl the entry is already expired.  Stated for a     *)
(* storage that can be read.                                               *)
(***************************************************************************)
C10_FreshUntilTtl ==
    (lastOp = "get" /\ storageMode # "unavailable" /\ HoldsEntry)
    => /\ (now - StoredAt >= cacheTTL) => got = Null
       /\ (now - StoredAt < cacheTTL) => got = StoredRelease
       /\ (now = StoredAt + cacheTTL) => got = Null

\* The part of C10 that holds: an entry is absent from its ttl on, and an
\* entry that was not stored at the epoch is returned before its ttl.
ExpiryAfterEpoch ==
    (lastOp = "get" /\ storageMode # "unavailable" /\ HoldsEntry)
    => /\ (now - StoredAt >= cacheTTL) => got = Null
       /\ (now - StoredAt < cacheTTL /\ StoredAt # 0) => got = StoredRelease
       /\ (now = StoredAt + cacheTTL) => got = Null

\* An entry stored one millisecond after the epoch is read at the last
\* instant of its life, and another one at its ttl.
ExpiryAfterEpoch_Witness ==
    /\ lastOp = "get" /\ storageMode # "unavailable" /\ HoldsEntry
    /\ StoredAt = 1
    /\ \/ now = cacheTTL /\ got = StoredRelease
       \/ now = cacheTTL + 1 /\ got = Null

(***************************************************************************)
(* Vocabulary of the claim about parseSemver: the version a tag holds,     *)
(* read off the characters of the tag.                                     *)
(***************************************************************************)
Max(S) == CHOOSE x \in S : \A y \in S : x >= y

Blanks == {" ", "\t", "\n", "\r"}

DecimalDigits == <<"0", "1", "2", "3", "4", "5", "6", "7", "8", "9">>

IsDecimalDigit(c) == \E d \in 1..10 : DecimalDigits[d] = c

\* The tag without the blanks around it and without one leading v or V.
CleanedTag(t) ==
    LET inked == {i \in 1..Len(t) : t[i] \notin Blanks}
    IN  IF inked = {} THEN <<>>
        ELSE LET core == SubSeq(t, Min(inked), Max(inked))
             IN  IF core[1] = "v" \/ core[1] = "V"
                 THEN SubSeq(core, 2, Len(core))
                 ELSE core

\* s[a..b] is a non-empty run of digits.
AllDigits(s, a, b) ==
    a <= b /\ b <= Len(s) /\ \A k \in a..b : IsDecimalDigit(s[k])

\* s[i..a] "." s[a+2..b] "." s[b+2..c] is of the form digits.digits.digits.
IsVersionAt(s, i, a, b, c) ==
    /\ AllDigits(s, i, a)
    /\ a + 1 <= Len(s) /\ s[a + 1] = "."
    /\ AllDigits(s, a + 2, b)
    /\ b + 1 <= Len(s) /\ s[b + 1] = "."
    /\ AllDigits(s, b + 2, c)

VersionStarts(s) ==
    {i \in 1..Len(s) :
        \E a \in i..Len(s) : \E b \in (a + 2)..Len(s) :
            \E c \in (b + 2)..Len(s) : IsVersionAt(s, i, a, b, c)}

RECURSIVE Pow10(_)
Pow10(n) == IF n = 0 THEN 1 ELSE 10 * Pow10(n - 1)

\* The number that the digits s[a..b] write in base ten.
RECURSIVE DecimalValue(_, _, _)
DecimalValue(s, a, b) ==
    IF a > b THEN 0
    ELSE (CHOOSE d \in 0..9 : DecimalDigits[d + 1] = s[a]) * Pow10(b - a)
            + DecimalValue(s, a + 1, b)

\* The version at the leftmost place of s where one starts, taken as long
\* as it goes.
FirstVersion(s) ==
    LET i == Min(VersionStarts(s))
        a == CHOOSE x \in i..Len(s) :
                 \E y \in (x + 2)..Len(s) : \E z \in (y + 2)..Len(s) :
                     IsVersionAt(s, i, x, y, z)
        b == CHOOSE y \in (a + 2)..Len(s) :
                 \E z \in (y + 2)..Len(s) : IsVersionAt(s, i, a, y, z)
        c == Max({z \in (b + 2)..Len(s) : IsVersionAt(s, i, a, b, z)})
    IN  [major |-> DecimalValue(s, i, a),
         minor |-> DecimalValue(s, a + 2, b),
         patch |-> DecimalValue(s, b + 2, c)]

(***************************************************************************)
(* C15: parseSemver returns null exactly when the tag is empty or absent   *)
(* or, after trimming whitespace and stripping one optional leading "v" or *)
(* "V", holds no substring of the form digits.digits.digits; otherwise it  *)
(* returns the three numbers of the leftmost such substring, each a        *)
(* non-negative integer, whatever text stands before or after it.  It      *)
(* raises no error.                                                        *)
(***************************************************************************)
C15_ParsesFirstVersion ==
    parsePc = "done"
    => LET s == CleanedTag(tagArg)
       IN  /\ (parsed = Null) <=> (tagArg = <<>> \/ VersionStarts(s) = {})
           /\ parsed # Null
                => /\ parsed = FirstVersion(s)
                   /\ parsed.major \in Nat
                   /\ parsed.minor \in Nat
                   /\ parsed.patch \in Nat

\* The example of the specification with text before and after the version.
C15_Witness ==
    /\ parsePc = "done"
    /\ tagArg = TagRelease
    /\ parsed = [major |-> 2, minor |-> 0, patch |-> 10]

(***************************************************************************)
(* C19: compareSemver(a, b) returns exactly one of -1, 0 or 1 for every    *)
(* pair of versions a and b, as its documentation comment states.          *)
(***************************************************************************)
C19_ReturnsSign == cmpPc = "done" => cmpOut \in {-1, 0, 1}

\* What the code does return: a number of the sign of the lexicographic
\* comparison on (major, minor, patch).
CompareHasSignOfOrder ==
    cmpPc = "done"
    => /\ cmpOut > 0 <=> VersionGreater(verA, verB)
       /\ cmpOut < 0 <=> VersionGreater(verB, verA)
       /\ cmpOut = 0 <=> verA = verB

(***************************************************************************)
(* Vocabulary of the claims about the runs of fetchLatestRelease.          *)
(***************************************************************************)
Started(r) == runs[r].pc # "idle"

\* The calls of the kind op that the run r has made.
CallsOf(r, op) == SelectSeq(runs[r].log, LAMBDA e : e.op = op)

Calls(r, op) == Len(CallsOf(r, op))

\* A payload that decodes to an entry with a timestamp and a release.
IsEntry(payload) ==
    payload # Null /\ payload # Garbage /\ payload # JsonText(Null)

\* The run r read an entry from the slot when it started.
ReadEntry(r) == runs[r].raw # <<>> /\ IsEntry(runs[r].raw[1])

EntryRead(r) == runs[r].raw[1].json

\* The release pickBestRelease gave the run r for the body it received.
SelectedBy(r) == BestOfBody[runs[r].releases[1]]

(***************************************************************************)
(* C11: a run that misses the cache and whose fetch fails (network error   *)
(* or non-success status), or whose list yields no best release, never     *)
(* invokes the presentation, changes neither the page nor the cache slot,  *)
(* has made one fetch and no second one, and is over.                      *)
(***************************************************************************)
C11_FailedRunLeavesNoTrace ==
    \A r \in RunIds :
        runs[r].outcome = "failed"
        => /\ runs[r].pc = "done"
           /\ Calls(r, "present") = 0
           /\ Calls(r, "cache") = 0
           /\ Calls(r, "fetch") = 1
           /\ runs[r].changed = {}

\* A run found no release in its list on a page that showed one already.
C11_Witness ==
    /\ runs[1].outcome = "hit"
    /\ runs[2].outcome = "failed"
    /\ runs[2].releases = <<BodyDrafts>>
    /\ ui # Null
    /\ storage = PriorEntry

(***************************************************************************)
(* C12: a run that misses the cache, fetches successfully and selects a    *)
(* best release b invokes the presentation exactly once with b and then    *)
(* writes the cache exactly once with b, in that order, and is over.       *)
(***************************************************************************)
C12_PresentThenCache ==
    \A r \in RunIds :
        runs[r].outcome = "selected"
        => /\ runs[r].pc = "done"
           /\ runs[r].log = <<Event("fetch", Null),
                              Event("present", SelectedBy(r)),
                              Event("cache", SelectedBy(r))>>

C12_Witness ==
    /\ runs[1].outcome = "selected"
    /\ runs[1].releases = <<BodyA>>
    /\ ui # Null /\ ui.release = ReleaseA
    /\ storage = JsonText([ts |-> now, release |-> ReleaseA])

(***************************************************************************)
(* C13: a run that finds a fresh cache entry forwards the cached release   *)
(* to the presentation exactly once, issues no network request and leaves  *)
(* the cache entry, release and timestamp, unchanged.                      *)
(***************************************************************************)
C13_HitPresentsCached ==
    \A r \in RunIds :
        runs[r].outcome = "hit"
        => /\ ReadEntry(r)
           /\ runs[r].log = <<Event("present", EntryRead(r).release)>>
           /\ "storage" \notin runs[r].changed

\* The second run finds what the first one stored.
C13_Witness ==
    /\ runs[1].outcome = "selected"
    /\ runs[2].outcome = "hit"
    /\ runs[2].pc = "done"
    /\ runs[2].log = <<Event("present", ReleaseB)>>
    /\ ui # Null /\ ui.release = ReleaseB
    /\ storage = JsonText([ts |-> runs[1].at, release |-> ReleaseB])

(***************************************************************************)
(* C14: no failure of the taxonomy (unparseable tag, empty release or      *)
(* asset list, transport failure, cache storage failure or corrupt cache   *)
(* payload), alone or combined, makes a run of fetchLatestRelease end with *)
(* an error that escapes to the caller.                                    *)
(***************************************************************************)
C14_NoErrorEscapes == \A r \in RunIds : runs[r].pc # "threw"

\* No error escapes as long as the slot held, when the page was loaded,
\* nothing, an undecodable text or an entry written by cacheRelease.
NoEscapeFromOwnPayloads ==
    firstStorage # PoisonEntry => \A r \in RunIds : runs[r].pc # "threw"

\* A run fails and the next one succeeds, on a slot that cannot be decoded
\* and a storage that refuses the write.
NoEscapeFromOwnPayloads_Witness ==
    /\ firstStorage = Garbage
    /\ storageMode = "quota"
    /\ runs[1].outcome = "failed"
    /\ runs[2].outcome = "selected"
    /\ runs[2].pc = "done"

C17_HitUntilTtl ==
    \A r \in RunIds :
        (Started(r) /\ ReadEntry(r))
        => LET t == EntryRead(r).ts
           IN  /\ (t <= runs[r].at /\ runs[r].at < t + cacheTTL)
                  => /\ runs[r].outcome = "hit"
                     /\ Calls(r, "fetch") = 0
                     /\ "storage" \notin runs[r].changed
               /\ runs[r].at >= t + cacheTTL
                  => /\ runs[r].outcome # "hit"
                     /\ Calls(r, "fetch") = 1

\* The same for every entry stored after the epoch.
HitUntilTtlAfterEpoch ==
    \A r \in RunIds :
        (Started(r) /\ ReadEntry(r) /\ EntryRead(r).ts > 0)
        => LET t == EntryRead(r).ts
           IN  /\ (t <= runs[r].at /\ runs[r].at < t + cacheTTL)
                  => /\ runs[r].outcome = "hit"
                     /\ Calls(r, "fetch") = 0
                     /\ "storage" \notin runs[r].changed
               /\ runs[r].at >= t + cacheTTL
                  => /\ runs[r].outcome # "hit"
                     /\ Calls(r, "fetch") = 1

\* A hit one millisecond before the entry expires, then a miss.
HitUntilTtlAfterEpoch_Witness ==
    /\ firstStorage = PriorEntry
    /\ runs[1].at = cacheTTL /\ runs[1].outcome = "hit"
    /\ runs[2].at = cacheTTL + 1 /\ runs[2].raw = <<PriorEntry>>
    /\ runs[2].pc = "fetching"

(***************************************************************************)
(* C18: when the storage fails on every read and every write, or the       *)
(* payload of the slot cannot be decoded, a run behaves as a cache miss:   *)
(* it issues a fetch, no error leaves it, and on a successful fetch and    *)
(* selection it invokes the presentation exactly once; and a storage that  *)
(* refuses the writes keeps the slot as it was.                            *)
(***************************************************************************)
C18_FailingStorageIsAMiss ==
    /\ \A r \in RunIds :
          (Started(r) /\ (runs[r].raw = <<>> \/ runs[r].raw = <<Garbage>>))
          => /\ runs[r].outcome # "hit"
             /\ runs[r].pc # "threw"
             /\ runs[r].log[1] = Event("fetch", Null)
             /\ runs[r].outcome = "selected"
                => CallsOf(r, "present") = <<Event("present", SelectedBy(r))>>
    /\ storageMode # "ok" => storage = firstStorage

\* Two runs on a storage that cannot be used, over an entry that would be
\* fresh: both are misses and both present.
C18_Witness ==
    /\ storageMode = "unavailable"
    /\ firstStorage = PriorEntry
    /\ runs[1].at = 1 /\ runs[1].outcome = "selected"
    /\ runs[2].at = 1 /\ runs[2].outcome = "selected"
    /\ runs[2].pc = "done"
    /\ ui # Null

(***************************************************************************)
(* C20: from an empty slot that only this program writes, every release    *)
(* in the cache and every release given to the presentation is a           *)
(* non-draft entry that pickBestRelease returned for a fetched list.       *)
(***************************************************************************)
C20_OnlySelectedReleases ==
    firstStorage = Null
    => LET Picked ==
               {SelectedBy(r) : r \in {q \in RunIds : runs[q].releases # <<>>}}
                   \ {Null}
           Fine(release) == release \in Picked /\ IsNonDraft(release)
       IN  /\ \A r \in RunIds : \A i \in 1..Len(runs[r].log) :
                 runs[r].log[i].op \in {"present", "cache"}
                 => Fine(runs[r].log[i].release)
           /\ ui # Null => Fine(ui.release)
           /\ HoldsEntry => Fine(StoredRelease)

\* A release selected from a list that has a draft of a higher version is
\* cached by one run and presented from the cache by the next.
C20_Witness ==
    /\ firstStorage = Null
    /\ runs[1].releases = <<BodyA>>
    /\ runs[1].outcome = "selected"
    /\ runs[2].outcome = "hit"
    /\ ui.release = ReleaseA
    /\ StoredRelease = ReleaseA

====
